---- MODULE Spec2Model ----
(***************************************************************************)
(* A model of airflow/executors/executor_loader.py: the ExecutorLoader     *)
(* class (registry `executors`, the cached `_default_executor`, and the    *)
(* class methods get_default_executor, load_executor, import_executor_cls  *)
(* and __load_celery_kubernetes_executor).                                 *)
(*                                                                         *)
(* A dotted name is a sequence of its segments: "a.b.C" is <<"a","b","C">>,*)
(* so that str.count(".") is Len - 1 and the f-string                      *)
(* f"airflow.executors.{name}" is a concatenation of sequences.            *)
(***************************************************************************)
EXTENDS Integers, Sequences, FiniteSets, TLC

(***************************************************************************)
(* Bounds of the model.                                                    *)
(***************************************************************************)
\* how many calls (of any entry point) one behaviour starts
MaxCalls == 3
\* the threads that may call get_default_executor
Threads == {"t1", "t2"}
\* the only thread of the sequential specification
MainThread == "t1"

(***************************************************************************)
(* executor_constants, as imported at lines 24-32.                         *)
(***************************************************************************)
LOCAL_EXECUTOR == <<"LocalExecutor">>
SEQUENTIAL_EXECUTOR == <<"SequentialExecutor">>
CELERY_EXECUTOR == <<"CeleryExecutor">>
CELERY_KUBERNETES_EXECUTOR == <<"CeleryKubernetesExecutor">>
DASK_EXECUTOR == <<"DaskExecutor">>
KUBERNETES_EXECUTOR == <<"KubernetesExecutor">>
DEBUG_EXECUTOR == <<"DebugExecutor">>

\* ExecutorLoader.executors (lines 54-62)
executors ==
    ( LOCAL_EXECUTOR :> <<"airflow", "executors", "local_executor", "LocalExecutor">> )
 @@ ( SEQUENTIAL_EXECUTOR :> <<"airflow", "executors", "sequential_executor", "SequentialExecutor">> )
 @@ ( CELERY_EXECUTOR :> <<"airflow", "executors", "celery_executor", "CeleryExecutor">> )
 @@ ( CELERY_KUBERNETES_EXECUTOR :>
        <<"airflow", "executors", "celery_kubernetes_executor", "CeleryKubernetesExecutor">> )
 @@ ( DASK_EXECUTOR :> <<"airflow", "executors", "dask_executor", "DaskExecutor">> )
 @@ ( KUBERNETES_EXECUTOR :> <<"airflow", "executors", "kubernetes_executor", "KubernetesExecutor">> )
 @@ ( DEBUG_EXECUTOR :> <<"airflow", "executors", "debug_executor", "DebugExecutor">> )

\* `executor_name in cls.executors`
RegistryKeys == DOMAIN executors

\* ConnectorSource (lines 41-47)
CORE == "core"
PLUGIN == "plugin"
CUSTOM_PATH == "custom path"
ConnectorSource == {CORE, PLUGIN, CUSTOM_PATH}

(***************************************************************************)
(* The names a caller or the configuration may give: every registry key,   *)
(* a plugin-shaped name (one "."), a dotted path with more separators, and *)
(* a name with no separator that is no key.                                *)
(***************************************************************************)
PluginShapedName == <<"my_plugin", "MyExecutor">>
DottedPathName == <<"my_company", "executors", "MyExecutor">>
BareName == <<"NoSuchExecutor">>
CustomNames == {PluginShapedName, DottedPathName, BareName}
Names == RegistryKeys \cup CustomNames

\* executor_name.count(".")
CountDots(executor_name) == Len(executor_name) - 1

\* f"airflow.executors.{executor_name}" (line 128)
PluginLocation(executor_name) == <<"airflow", "executors">> \o executor_name

(***************************************************************************)
(* Results of calls: a value returned or an exception raised.              *)
(***************************************************************************)
NoMessage == <<>>
Return(v) == [kind |-> "return", val |-> v, exc |-> "", msg |-> NoMessage]
Raise(e, m) == [kind |-> "raise", val |-> <<>>, exc |-> e, msg |-> m]
Pending == [kind |-> "pending", val |-> <<>>, exc |-> "", msg |-> NoMessage]
Returned(r) == r.kind = "return"
Raised(r) == r.kind = "raise"

(***************************************************************************)
(* Classes and instances.  A class is known by its module path and its     *)
(* name, the two halves import_string splits a dotted path into; an        *)
(* instance by its class, the order of its creation and the arguments its  *)
(* constructor was given.                                                  *)
(***************************************************************************)
ClassAt(dotted_path) ==
    [module |-> SubSeq(dotted_path, 1, Len(dotted_path) - 1),
     name |-> dotted_path[Len(dotted_path)]]
PathOf(class) == class.module \o <<class.name>>

\* Optional["BaseExecutor"] = None (line 53)
None == [cls |-> [module |-> <<>>, name |-> "NoneType"], id |-> 0, args |-> <<>>]
Instance(class, id, args) == [cls |-> class, id |-> id, args |-> args]

(***************************************************************************)
(* What a call finds outside the loader, read when the call runs:          *)
(*   mods  the state of each dotted location the call may load (at the     *)
(*         time import_string is applied to it);                           *)
(*   plug  how plugins_manager.integrate_executor_plugins() ends;          *)
(*   bad   the classes whose constructor raises.                           *)
(***************************************************************************)
ModuleStatus == {"ok", "module_absent", "attr_absent", "init_failure"}
PlugOutcome == {"ok", "ImportError", "AttributeError", "OtherError"}

\* cls.executors as the methods find it when they run; the class body
\* (lines 54-62) gives it the value `executors`
VARIABLE registry

\* the locations import_executor_cls may load for a name
ResolveLocations(executor_name) ==
    IF executor_name \in RegistryKeys THEN {executors[executor_name]}
    ELSE IF CountDots(executor_name) = 1
         THEN {PluginLocation(executor_name), executor_name}
         ELSE {executor_name}

\* the locations load_executor may load for a name
LoadLocations(executor_name) ==
    IF executor_name = CELERY_KUBERNETES_EXECUTOR
    THEN {executors[CELERY_EXECUTOR], executors[KUBERNETES_EXECUTOR],
          executors[CELERY_KUBERNETES_EXECUTOR]}
    ELSE ResolveLocations(executor_name)

\* the collaborator is only reached for a plugin-shaped name that is no key
PlugOutcomesFor(executor_name) ==
    IF executor_name \notin RegistryKeys /\ CountDots(executor_name) = 1
    THEN PlugOutcome ELSE {"ok"}

\* at most one constructor raises: the first failure ends the call
BadSets(locs) == {{}} \cup {{ClassAt(l)} : l \in locs}

ResolveEnvs(executor_name) ==
    [mods : [ResolveLocations(executor_name) -> ModuleStatus],
     plug : PlugOutcomesFor(executor_name),
     bad : {{}}]

LoadEnvs(executor_name) ==
    [mods : [LoadLocations(executor_name) -> ModuleStatus],
     plug : PlugOutcomesFor(executor_name),
     bad : BadSets(LoadLocations(executor_name))]

(***************************************************************************)
(* airflow.utils.module_loading.import_string, the Dynamic Loader: a path  *)
(* with no separator, an absent module, an absent attribute and a failure  *)
(* inside the target module are all surfaced as the one load error.        *)
(***************************************************************************)
import_string(dotted_path, mods) ==
    IF Len(dotted_path) < 2 THEN Raise("ImportError", NoMessage)
    ELSE IF mods[dotted_path] = "ok" THEN Return(ClassAt(dotted_path))
    ELSE Raise("ImportError", NoMessage)

\* the constructor signatures: the composite takes its two sub-executors
Arity(class) ==
    IF PathOf(class) = executors[CELERY_KUBERNETES_EXECUTOR] THEN 2 ELSE 0

\* class(*args): a call with the wrong number of arguments is a TypeError
Construct(class, args, bad, id) ==
    IF Len(args) # Arity(class) THEN Raise("TypeError", NoMessage)
    ELSE IF class \in bad THEN Raise("OtherError", NoMessage)
    ELSE Return(Instance(class, id, args))

\* variants of line 122: a suppress that forgets ImportError, and one that
\* swallows every exception
Suppressed_AttributeErrorOnly == {"AttributeError"}
Suppressed_Everything == {"ImportError", "AttributeError", "OtherError"}

\* contextlib.suppress(ImportError, AttributeError) (line 122)
Suppressed == {"ImportError", "AttributeError"}

(***************************************************************************)
(* What a call does, in order: each call of import_string, of              *)
(* integrate_executor_plugins and of a constructor is one event.           *)
(***************************************************************************)
LoadEvent(dotted_path) == <<"import_string">> \o dotted_path
PlugEvent == <<"plugins_manager.integrate_executor_plugins">>
ConstructEvent(class) == <<"construct">> \o PathOf(class)

(***************************************************************************)
(* ExecutorLoader.import_executor_cls (lines 105-129).  The result is the  *)
(* pair (class, source) or the exception raised; `loads` lists the         *)
(* locations handed to import_string, in order, `plugs` counts the calls   *)
(* of integrate_executor_plugins and `events` lists all of them in order.  *)
(***************************************************************************)
\* a variant of line 115 carrying the tag of line 129
CoreImport_TagsCustomPath(executor_name, env) ==
    LET core == import_string(registry[executor_name], env.mods) IN
    [res |-> IF Returned(core) THEN Return(<<core.val, CUSTOM_PATH>>) ELSE core,
     loads |-> <<registry[executor_name]>>,
     plugs |-> 0,
     events |-> <<LoadEvent(registry[executor_name])>>]

\* line 115: return import_string(cls.executors[executor_name]), ConnectorSource.CORE
CoreImport(executor_name, env) ==
    LET core == import_string(registry[executor_name], env.mods) IN
    [res |-> IF Returned(core) THEN Return(<<core.val, CORE>>) ELSE core,
     loads |-> <<registry[executor_name]>>,
     plugs |-> 0,
     events |-> <<LoadEvent(registry[executor_name])>>]

\* a variant of line 129 that loads the plugin-namespaced class object name
CustomPathImport_PrefixedClass(executor_name, env) ==
    LET literal == import_string(executor_name, env.mods) IN
    [res |-> IF Returned(literal)
             THEN Return(<<ClassAt(PluginLocation(executor_name)), CUSTOM_PATH>>)
             ELSE literal,
     loads |-> <<executor_name>>,
     plugs |-> 0,
     events |-> <<LoadEvent(executor_name)>>]

\* line 129: return import_string(executor_name), ConnectorSource.CUSTOM_PATH
CustomPathImport(executor_name, env) ==
    LET literal == import_string(executor_name, env.mods) IN
    [res |-> IF Returned(literal) THEN Return(<<literal.val, CUSTOM_PATH>>) ELSE literal,
     loads |-> <<executor_name>>,
     plugs |-> 0,
     events |-> <<LoadEvent(executor_name)>>]

\* a variant of lines 125-128 that loads the class before it integrates the
\* plugins
PluginImport_LoadsFirst(executor_name, env) ==
    LET plugin == import_string(PluginLocation(executor_name), env.mods) IN
    IF Raised(plugin)
    THEN [res |-> plugin,
          loads |-> <<PluginLocation(executor_name)>>,
          plugs |-> 0,
          events |-> <<LoadEvent(PluginLocation(executor_name))>>]
    ELSE [res |-> IF env.plug = "ok" THEN Return(<<plugin.val, PLUGIN>>)
                  ELSE Raise(env.plug, NoMessage),
          loads |-> <<PluginLocation(executor_name)>>,
          plugs |-> 1,
          events |-> <<LoadEvent(PluginLocation(executor_name)), PlugEvent>>]

\* a variant of lines 125-128 that tries the literal location before the
\* plugin-namespaced one
PluginImport_LiteralFirst(executor_name, env) ==
    IF env.plug # "ok"
    THEN [res |-> Raise(env.plug, NoMessage), loads |-> <<>>, plugs |-> 1,
          events |-> <<PlugEvent>>]
    ELSE
        LET literal == import_string(executor_name, env.mods)
            plugin == import_string(PluginLocation(executor_name), env.mods)
        IN
        IF Returned(literal)
        THEN [res |-> Return(<<literal.val, CUSTOM_PATH>>),
              loads |-> <<executor_name>>,
              plugs |-> 1,
              events |-> <<PlugEvent, LoadEvent(executor_name)>>]
        ELSE [res |-> IF Returned(plugin) THEN Return(<<plugin.val, PLUGIN>>) ELSE plugin,
              loads |-> <<executor_name, PluginLocation(executor_name)>>,
              plugs |-> 1,
              events |-> <<PlugEvent, LoadEvent(executor_name),
                           LoadEvent(PluginLocation(executor_name))>>]

\* lines 125-128, the body of the `with suppress(...)` block: when
\* integrate_executor_plugins raises, line 128 is not reached
PluginImport(executor_name, env) ==
    IF env.plug # "ok"
    THEN [res |-> Raise(env.plug, NoMessage), loads |-> <<>>, plugs |-> 1,
          events |-> <<PlugEvent>>]
    ELSE
        LET plugin == import_string(PluginLocation(executor_name), env.mods) IN
        [res |-> IF Returned(plugin) THEN Return(<<plugin.val, PLUGIN>>) ELSE plugin,
         loads |-> <<PluginLocation(executor_name)>>,
         plugs |-> 1,
         events |-> <<PlugEvent, LoadEvent(PluginLocation(executor_name))>>]

\* a variant of lines 114-129 that integrates the plugins on entry, whatever
\* the name
import_executor_cls_EagerPlugins(executor_name, env) ==
    LET rest == IF executor_name \in DOMAIN registry
                THEN CoreImport(executor_name, env)
                ELSE CustomPathImport(executor_name, env)
    IN
    [rest EXCEPT !.plugs = 1, !.events = <<PlugEvent>> \o @]

\* a variant of lines 114-115 that falls back on the other strategies when
\* the registry location does not load
import_executor_cls_KeyFallsBack(executor_name, env) ==
    LET core == IF executor_name \in DOMAIN registry
                THEN CoreImport(executor_name, env)
                ELSE CustomPathImport(executor_name, env)
        custom == import_string(executor_name, env.mods)
    IN
    IF executor_name \in DOMAIN registry /\ Raised(core.res)
    THEN [res |-> custom,
          loads |-> core.loads \o <<executor_name>>,
          plugs |-> 0,
          events |-> core.events \o <<LoadEvent(executor_name)>>]
    ELSE core

import_executor_cls(executor_name, env) ==
    IF executor_name \in DOMAIN registry THEN CoreImport(executor_name, env)
    ELSE IF CountDots(executor_name) = 1 THEN
        LET plugin == PluginImport(executor_name, env)
            custom == CustomPathImport(executor_name, env)
        IN
        IF Raised(plugin.res) /\ plugin.res.exc \in Suppressed
        THEN \* the exception is suppressed and line 129 runs
             [res |-> custom.res,
              loads |-> plugin.loads \o custom.loads,
              plugs |-> plugin.plugs + custom.plugs,
              events |-> plugin.events \o custom.events]
        ELSE plugin
    ELSE CustomPathImport(executor_name, env)

\* a variant of line 138 with the two sub-executors in the other order
CompositeArgs_Swapped(celery_executor, kubernetes_executor) ==
    <<kubernetes_executor, celery_executor>>

\* line 138: the arguments (celery_executor, kubernetes_executor)
CompositeArgs(celery_executor, kubernetes_executor) ==
    <<celery_executor, kubernetes_executor>>

\* a variant of lines 134-137 that loads the three classes before it
\* constructs any of them
load_celery_kubernetes_executor_LoadsFirst(env, nextId) ==
    LET celLoc == registry[CELERY_EXECUTOR]
        kubLoc == registry[KUBERNETES_EXECUTOR]
        ckeLoc == registry[CELERY_KUBERNETES_EXECUTOR]
        celCls == import_string(celLoc, env.mods)
        kubCls == import_string(kubLoc, env.mods)
        ckeCls == import_string(ckeLoc, env.mods)
        celery_executor == Construct(celCls.val, <<>>, env.bad, nextId)
        kubernetes_executor == Construct(kubCls.val, <<>>, env.bad, nextId + 1)
        composite == Construct(ckeCls.val,
                               CompositeArgs(celery_executor.val, kubernetes_executor.val),
                               env.bad, nextId + 2)
        l1 == <<LoadEvent(celLoc)>>
        l2 == l1 \o <<LoadEvent(kubLoc)>>
        l3 == l2 \o <<LoadEvent(ckeLoc)>>
        c1 == l3 \o <<ConstructEvent(celCls.val)>>
        c2 == c1 \o <<ConstructEvent(kubCls.val)>>
        c3 == c2 \o <<ConstructEvent(ckeCls.val)>>
    IN
    IF Raised(celCls)
    THEN [res |-> celCls, loads |-> <<celLoc>>, plugs |-> 0, made |-> <<>>, events |-> l1]
    ELSE IF Raised(kubCls)
    THEN [res |-> kubCls, loads |-> <<celLoc, kubLoc>>, plugs |-> 0, made |-> <<>>,
          events |-> l2]
    ELSE IF Raised(ckeCls)
    THEN [res |-> ckeCls, loads |-> <<celLoc, kubLoc, ckeLoc>>, plugs |-> 0,
          made |-> <<>>, events |-> l3]
    ELSE IF Raised(celery_executor)
    THEN [res |-> celery_executor, loads |-> <<celLoc, kubLoc, ckeLoc>>, plugs |-> 0,
          made |-> <<>>, events |-> c1]
    ELSE IF Raised(kubernetes_executor)
    THEN [res |-> kubernetes_executor, loads |-> <<celLoc, kubLoc, ckeLoc>>, plugs |-> 0,
          made |-> <<celery_executor.val>>, events |-> c2]
    ELSE IF Raised(composite)
    THEN [res |-> composite, loads |-> <<celLoc, kubLoc, ckeLoc>>, plugs |-> 0,
          made |-> <<celery_executor.val, kubernetes_executor.val>>, events |-> c3]
    ELSE [res |-> composite, loads |-> <<celLoc, kubLoc, ckeLoc>>, plugs |-> 0,
          made |-> <<celery_executor.val, kubernetes_executor.val, composite.val>>,
          events |-> c3]

(***************************************************************************)
(* ExecutorLoader.__load_celery_kubernetes_executor (lines 131-138).       *)
(* `made` lists the instances constructed, in order; ids are given from    *)
(* nextId on.                                                              *)
(***************************************************************************)
load_celery_kubernetes_executor(env, nextId) ==
    LET celLoc == registry[CELERY_EXECUTOR]
        kubLoc == registry[KUBERNETES_EXECUTOR]
        ckeLoc == registry[CELERY_KUBERNETES_EXECUTOR]
        \* line 134
        celCls == import_string(celLoc, env.mods)
        celery_executor == Construct(celCls.val, <<>>, env.bad, nextId)
        \* line 135
        kubCls == import_string(kubLoc, env.mods)
        kubernetes_executor == Construct(kubCls.val, <<>>, env.bad, nextId + 1)
        \* line 137
        celery_kubernetes_executor_cls == import_string(ckeLoc, env.mods)
        \* line 138
        composite == Construct(celery_kubernetes_executor_cls.val,
                               CompositeArgs(celery_executor.val, kubernetes_executor.val),
                               env.bad, nextId + 2)
        e1 == <<LoadEvent(celLoc)>>
        e2 == e1 \o <<ConstructEvent(celCls.val)>>
        e3 == e2 \o <<LoadEvent(kubLoc)>>
        e4 == e3 \o <<ConstructEvent(kubCls.val)>>
        e5 == e4 \o <<LoadEvent(ckeLoc)>>
        e6 == e5 \o <<ConstructEvent(celery_kubernetes_executor_cls.val)>>
    IN
    IF Raised(celCls)
    THEN [res |-> celCls, loads |-> <<celLoc>>, plugs |-> 0, made |-> <<>>, events |-> e1]
    ELSE IF Raised(celery_executor)
    THEN [res |-> celery_executor, loads |-> <<celLoc>>, plugs |-> 0, made |-> <<>>,
          events |-> e2]
    ELSE IF Raised(kubCls)
    THEN [res |-> kubCls, loads |-> <<celLoc, kubLoc>>, plugs |-> 0,
          made |-> <<celery_executor.val>>, events |-> e3]
    ELSE IF Raised(kubernetes_executor)
    THEN [res |-> kubernetes_executor, loads |-> <<celLoc, kubLoc>>, plugs |-> 0,
          made |-> <<celery_executor.val>>, events |-> e4]
    ELSE IF Raised(celery_kubernetes_executor_cls)
    THEN [res |-> celery_kubernetes_executor_cls, loads |-> <<celLoc, kubLoc, ckeLoc>>,
          plugs |-> 0, made |-> <<celery_executor.val, kubernetes_executor.val>>,
          events |-> e5]
    ELSE IF Raised(composite)
    THEN [res |-> composite, loads |-> <<celLoc, kubLoc, ckeLoc>>, plugs |-> 0,
          made |-> <<celery_executor.val, kubernetes_executor.val>>, events |-> e6]
    ELSE [res |-> composite, loads |-> <<celLoc, kubLoc, ckeLoc>>, plugs |-> 0,
          made |-> <<celery_executor.val, kubernetes_executor.val, composite.val>>,
          events |-> e6]

\* a variant of lines 97-100 whose text leaves the value out
ConfigMessage_NoName(executor_name) ==
    << <<"The module/attribute could not be loaded. Please check \"executor\" key in \"core\" section.">> >>

\* the text of the AirflowConfigException (lines 97-100)
ConfigMessage(executor_name) ==
    << <<"The module/attribute could not be loaded. Please check \"executor\" key in \"core\" section. Current value: \"">>,
       executor_name,
       <<"\".">> >>

\* a variant of line 95 that catches another exception type
Caught_AttributeError == {"AttributeError"}

\* `except ImportError` (line 95)
Caught == {"ImportError"}

(***************************************************************************)
(* ExecutorLoader.load_executor (lines 78-103).                            *)
(***************************************************************************)
load_executor(executor_name, env, nextId) ==
    IF executor_name = CELERY_KUBERNETES_EXECUTOR
    THEN load_celery_kubernetes_executor(env, nextId)
    ELSE
        LET imported == import_executor_cls(executor_name, env)
            executor == Construct(imported.res.val[1], <<>>, env.bad, nextId)
        IN
        IF Raised(imported.res) THEN
            [res |-> IF imported.res.exc \in Caught
                     THEN Raise("AirflowConfigException", ConfigMessage(executor_name))
                     ELSE imported.res,
             loads |-> imported.loads, plugs |-> imported.plugs, made |-> <<>>,
             events |-> imported.events]
        ELSE
            [res |-> executor, loads |-> imported.loads, plugs |-> imported.plugs,
             made |-> IF Returned(executor) THEN <<executor.val>> ELSE <<>>,
             events |-> imported.events \o <<ConstructEvent(imported.res.val[1])>>]

(***************************************************************************)
(* The inputs of a call.  What a call never looks at cannot change what it *)
(* does, so of the environments that differ only there one is kept: the    *)
(* one in which every location the call does not load is loadable and      *)
(* every constructor it does not call is sound.                            *)
(***************************************************************************)
ReadBy(out, env) ==
    /\ \A l \in DOMAIN env.mods :
         env.mods[l] # "ok" => \E i \in 1..Len(out.loads) : out.loads[i] = l
    /\ \A c \in env.bad :
         \E i \in 1..Len(out.events) : out.events[i] = ConstructEvent(c)

LoadInputs ==
    [name \in Names |->
       {env \in LoadEnvs(name) : ReadBy(load_executor(name, env, 1), env)}]

ResolveInputs ==
    [name \in Names |->
       {env \in ResolveEnvs(name) : ReadBy(import_executor_cls(name, env), env)}]

(***************************************************************************)
(* The state.                                                              *)
(*   default_executor   ExecutorLoader._default_executor                   *)
(*   conf               the value of [core] EXECUTOR in the configuration  *)
(*   pc, executor_name, loaded   where each thread is in                   *)
(*                      get_default_executor, its local executor_name and  *)
(*                      the value load_executor returned to it             *)
(*   ret                how each thread's latest get_default_executor call *)
(*                      ended                                              *)
(*   created            the number of executor instances constructed       *)
(*   last               the latest direct call of load_executor or         *)
(*                      import_executor_cls: its arguments, what it found  *)
(*                      outside and what it did                            *)
(* and, kept for the properties only:                                      *)
(*   nCalls      calls started         confReads   calls of conf.get       *)
(*   emptyChecks calls of get_default_executor that found no cached value  *)
(*   resolutions calls of load_executor made by get_default_executor       *)
(*   resolved    the instances those calls returned                        *)
(*   failed      calls of get_default_executor that raised                 *)
(*   plugCalls   calls of plugins_manager.integrate_executor_plugins       *)
(***************************************************************************)
VARIABLES default_executor, conf, pc, executor_name, loaded, ret, created, last,
          nCalls, confReads, emptyChecks, resolutions, resolved, failed, plugCalls

vars == <<registry, default_executor, conf, pc, executor_name, loaded, ret, created, last,
          nCalls, confReads, emptyChecks, resolutions, resolved, failed, plugCalls>>

\* the values the configuration may hold: a core executor, the composite,
\* a plugin-shaped name and a name that resolves to nothing
ConfValues == {SEQUENTIAL_EXECUTOR, CELERY_KUBERNETES_EXECUTOR, PluginShapedName, BareName}

NoCall == [op |-> "none"]

Init ==
    /\ registry = executors
    /\ default_executor = None
    /\ conf = SEQUENTIAL_EXECUTOR
    /\ pc = [t \in Threads |-> "idle"]
    /\ executor_name = [t \in Threads |-> <<>>]
    /\ loaded = [t \in Threads |-> None]
    /\ ret = [t \in Threads |-> Pending]
    /\ created = 0
    /\ last = NoCall
    /\ nCalls = 0
    /\ confReads = 0
    /\ emptyChecks = 0
    /\ resolutions = 0
    /\ resolved = {}
    /\ failed = 0
    /\ plugCalls = 0

(***************************************************************************)
(* get_default_executor (lines 64-76), one action per step a thread can be *)
(* interrupted after: the method takes no lock.                            *)
(***************************************************************************)
\* a thread enters the method
GetDefaultCall(t) ==
    /\ pc[t] = "idle"
    /\ nCalls < MaxCalls
    /\ nCalls' = nCalls + 1
    /\ pc' = [pc EXCEPT ![t] = "l67"]
    /\ ret' = [ret EXCEPT ![t] = Pending]
    /\ UNCHANGED <<registry, default_executor, conf, executor_name, loaded, created, last,
                   confReads, emptyChecks, resolutions, resolved, failed, plugCalls>>

\* a variant of lines 67-68 that never takes the early return
GetDefaultCheck_AlwaysMiss(t) ==
    /\ pc[t] = "l67"
    /\ pc' = [pc EXCEPT ![t] = "l72"]
    /\ emptyChecks' = emptyChecks + 1
    /\ UNCHANGED <<registry, default_executor, conf, executor_name, loaded, ret, created, last,
                   nCalls, confReads, resolutions, resolved, failed, plugCalls>>

\* lines 67-68: `if cls._default_executor is not None: return cls._default_executor`
GetDefaultCheck(t) ==
    /\ pc[t] = "l67"
    /\ IF default_executor # None
       THEN /\ ret' = [ret EXCEPT ![t] = Return(default_executor)]
            /\ pc' = [pc EXCEPT ![t] = "idle"]
            /\ UNCHANGED emptyChecks
       ELSE /\ pc' = [pc EXCEPT ![t] = "l72"]
            /\ emptyChecks' = emptyChecks + 1
            /\ UNCHANGED ret
    /\ UNCHANGED <<registry, default_executor, conf, executor_name, loaded, created, last,
                   nCalls, confReads, resolutions, resolved, failed, plugCalls>>

\* lines 70-72: executor_name = conf.get('core', 'EXECUTOR')
GetDefaultReadConf(t) ==
    /\ pc[t] = "l72"
    /\ executor_name' = [executor_name EXCEPT ![t] = conf]
    /\ confReads' = confReads + 1
    /\ pc' = [pc EXCEPT ![t] = "l74"]
    /\ UNCHANGED <<registry, default_executor, conf, loaded, ret, created, last,
                   nCalls, emptyChecks, resolutions, resolved, failed, plugCalls>>

\* a variant of line 74 that, when load_executor raises, caches a
\* SequentialExecutor before the exception leaves the method
GetDefaultLoad_CachesFallback(t) ==
    /\ pc[t] = "l74"
    /\ \E env \in LoadInputs[executor_name[t]] :
         LET out == load_executor(executor_name[t], env, created + 1) IN
         /\ plugCalls' = plugCalls + out.plugs
         /\ resolutions' = resolutions + 1
         /\ IF Returned(out.res)
            THEN /\ loaded' = [loaded EXCEPT ![t] = out.res.val]
                 /\ resolved' = resolved \cup {out.res.val}
                 /\ pc' = [pc EXCEPT ![t] = "l74s"]
                 /\ created' = created + Len(out.made)
                 /\ UNCHANGED <<ret, failed, default_executor>>
            ELSE /\ ret' = [ret EXCEPT ![t] = out.res]
                 /\ failed' = failed + 1
                 /\ pc' = [pc EXCEPT ![t] = "idle"]
                 /\ created' = created + Len(out.made) + 1
                 /\ default_executor' =
                      Instance(ClassAt(registry[SEQUENTIAL_EXECUTOR]),
                               created + Len(out.made) + 1, <<>>)
                 /\ UNCHANGED <<loaded, resolved>>
    /\ UNCHANGED <<registry, conf, executor_name, last,
                   nCalls, confReads, emptyChecks>>

\* line 74, right-hand side: cls.load_executor(executor_name)
GetDefaultLoad(t) ==
    /\ pc[t] = "l74"
    /\ \E env \in LoadInputs[executor_name[t]] :
         LET out == load_executor(executor_name[t], env, created + 1) IN
         /\ created' = created + Len(out.made)
         /\ plugCalls' = plugCalls + out.plugs
         /\ resolutions' = resolutions + 1
         /\ IF Returned(out.res)
            THEN /\ loaded' = [loaded EXCEPT ![t] = out.res.val]
                 /\ resolved' = resolved \cup {out.res.val}
                 /\ pc' = [pc EXCEPT ![t] = "l74s"]
                 /\ UNCHANGED <<ret, failed>>
            ELSE /\ ret' = [ret EXCEPT ![t] = out.res]
                 /\ failed' = failed + 1
                 /\ pc' = [pc EXCEPT ![t] = "idle"]
                 /\ UNCHANGED <<loaded, resolved>>
    /\ UNCHANGED <<registry, default_executor, conf, executor_name, last,
                   nCalls, confReads, emptyChecks>>

\* a variant of line 74 that binds a local name and leaves the class attribute
GetDefaultStore_NoStore(t) ==
    /\ pc[t] = "l74s"
    /\ pc' = [pc EXCEPT ![t] = "l76"]
    /\ UNCHANGED <<registry, default_executor, conf, executor_name, loaded, ret, created, last,
                   nCalls, confReads, emptyChecks, resolutions, resolved, failed, plugCalls>>

\* line 74, the assignment: cls._default_executor = <the value returned>
GetDefaultStore(t) ==
    /\ pc[t] = "l74s"
    /\ default_executor' = loaded[t]
    /\ pc' = [pc EXCEPT ![t] = "l76"]
    /\ UNCHANGED <<registry, conf, executor_name, loaded, ret, created, last,
                   nCalls, confReads, emptyChecks, resolutions, resolved, failed, plugCalls>>

\* line 76: return cls._default_executor
GetDefaultReturn(t) ==
    /\ pc[t] = "l76"
    /\ ret' = [ret EXCEPT ![t] = Return(default_executor)]
    /\ pc' = [pc EXCEPT ![t] = "idle"]
    /\ UNCHANGED <<registry, default_executor, conf, executor_name, loaded, created, last,
                   nCalls, confReads, emptyChecks, resolutions, resolved, failed, plugCalls>>

(***************************************************************************)
(* Direct calls of the two public class methods.                           *)
(***************************************************************************)
\* a variant of load_executor that memoises in the class attribute: it
\* returns the cached instance when there is one and caches what it builds
LoadExecutorCall_Memoised ==
    /\ nCalls < MaxCalls
    /\ nCalls' = nCalls + 1
    /\ \E name \in Names : \E env \in LoadInputs[name] :
         LET built == load_executor(name, env, created + 1)
             out == IF default_executor # None /\ Returned(built.res)
                    THEN [built EXCEPT !.res = Return(default_executor)]
                    ELSE built
         IN
         /\ last' = [op |-> "load_executor", name |-> name, env |-> env, out |-> out]
         /\ created' = created + Len(out.made)
         /\ plugCalls' = plugCalls + out.plugs
         /\ default_executor' = IF Returned(out.res) THEN out.res.val
                                ELSE default_executor
    /\ UNCHANGED <<registry, conf, pc, executor_name, loaded, ret,
                   confReads, emptyChecks, resolutions, resolved, failed>>

\* load_executor(name), lines 78-103, called by a client
LoadExecutorCall ==
    /\ nCalls < MaxCalls
    /\ nCalls' = nCalls + 1
    /\ \E name \in Names : \E env \in LoadInputs[name] :
         LET out == load_executor(name, env, created + 1) IN
         /\ last' = [op |-> "load_executor", name |-> name, env |-> env, out |-> out]
         /\ created' = created + Len(out.made)
         /\ plugCalls' = plugCalls + out.plugs
    /\ UNCHANGED <<registry, default_executor, conf, pc, executor_name, loaded, ret,
                   confReads, emptyChecks, resolutions, resolved, failed>>

\* a variant of import_executor_cls that enters the location it found for a
\* name outside the registry into the registry
ImportExecutorClsCall_Registers ==
    /\ nCalls < MaxCalls
    /\ nCalls' = nCalls + 1
    /\ \E name \in Names : \E env \in ResolveInputs[name] :
         LET out == import_executor_cls(name, env) IN
         /\ last' = [op |-> "import_executor_cls", name |-> name, env |-> env,
                     out |-> out]
         /\ plugCalls' = plugCalls + out.plugs
         /\ registry' = IF Returned(out.res)
                        THEN (name :> PathOf(out.res.val[1])) @@ registry
                        ELSE registry
    /\ UNCHANGED <<default_executor, conf, pc, executor_name, loaded, ret, created,
                   confReads, emptyChecks, resolutions, resolved, failed>>

\* import_executor_cls(name), lines 105-129, called by a client
ImportExecutorClsCall ==
    /\ nCalls < MaxCalls
    /\ nCalls' = nCalls + 1
    /\ \E name \in Names : \E env \in ResolveInputs[name] :
         LET out == import_executor_cls(name, env) IN
         /\ last' = [op |-> "import_executor_cls", name |-> name, env |-> env,
                     out |-> out]
         /\ plugCalls' = plugCalls + out.plugs
    /\ UNCHANGED <<registry, default_executor, conf, pc, executor_name, loaded, ret, created,
                   confReads, emptyChecks, resolutions, resolved, failed>>

\* the operator edits the configuration
ConfigChange ==
    /\ \E name \in ConfValues \ {conf} : conf' = name
    /\ UNCHANGED <<registry, default_executor, pc, executor_name, loaded, ret, created, last,
                   nCalls, confReads, emptyChecks, resolutions, resolved, failed, plugCalls>>

\* the calls of get_default_executor by any thread, and the configuration
Next ==
    \/ \E t \in Threads : GetDefaultCall(t)
    \/ \E t \in Threads : GetDefaultCheck(t)
    \/ \E t \in Threads : GetDefaultReadConf(t)
    \/ \E t \in Threads : GetDefaultLoad(t)
    \/ \E t \in Threads : GetDefaultStore(t)
    \/ \E t \in Threads : GetDefaultReturn(t)
    \/ ConfigChange

Spec == Init /\ [][Next]_vars

\* one thread only: every call runs to its end before the next starts
NextSeq ==
    \/ GetDefaultCall(MainThread)
    \/ GetDefaultCheck(MainThread)
    \/ GetDefaultReadConf(MainThread)
    \/ GetDefaultLoad(MainThread)
    \/ GetDefaultStore(MainThread)
    \/ GetDefaultReturn(MainThread)
    \/ ConfigChange

SpecSeq == Init /\ [][NextSeq]_vars

\* direct calls of load_executor and import_executor_cls
NextLoader ==
    \/ LoadExecutorCall
    \/ ImportExecutorClsCall

SpecLoader == Init /\ [][NextLoader]_vars

\* one thread that calls get_default_executor, load_executor and
\* import_executor_cls in any order, one call after the other, while the
\* configuration keeps its value
NextMixed ==
    \/ GetDefaultCall(MainThread)
    \/ GetDefaultCheck(MainThread)
    \/ GetDefaultReadConf(MainThread)
    \/ GetDefaultLoad(MainThread)
    \/ GetDefaultStore(MainThread)
    \/ GetDefaultReturn(MainThread)
    \/ pc[MainThread] = "idle" /\ LoadExecutorCall
    \/ pc[MainThread] = "idle" /\ ImportExecutorClsCall

SpecMixed == Init /\ [][NextMixed]_vars

(***************************************************************************)
(* Properties of get_default_executor.                                     *)
(***************************************************************************)

\* C1: when threads call get_default_executor concurrently while nothing is
\* cached, at most one resolution-and-instantiation yields an instance, and
\* every caller that returns receives the same instance.
C1_OneInstanceForAllCallers ==
    /\ Cardinality(resolved) <= 1
    /\ \A t1, t2 \in Threads :
         Returned(ret[t1]) /\ Returned(ret[t2]) => ret[t1].val = ret[t2].val

\* C2: in one thread, once an instance is cached no later step reads the
\* configuration, resolves, instantiates or replaces the cached instance,
\* every later call returns that very instance, and of all the reads of the
\* configuration exactly one is not the read of a call that failed.
C2_CachedInstanceReused ==
    /\ [](default_executor # None => confReads = failed + 1)
    /\ [][default_executor # None =>
            /\ default_executor' = default_executor
            /\ confReads' = confReads
            /\ resolutions' = resolutions
            /\ created' = created
            /\ (Returned(ret'[MainThread]) => ret'[MainThread].val = default_executor)]_vars

\* C2 witness: a second call has returned the cached instance although the
\* configuration now names something that resolves to nothing.
C2_Witness ==
    /\ default_executor # None
    /\ pc[MainThread] = "idle"
    /\ nCalls = 2
    /\ emptyChecks = 1
    /\ confReads = 1
    /\ ret[MainThread] = Return(default_executor)
    /\ conf = BareName

\* C3 as stated: over any sequence of calls, whatever their outcomes, the
\* configuration is read exactly once, during the first call.
C3_ConfigReadExactlyOnce ==
    /\ confReads <= 1
    /\ (nCalls >= 2 => confReads = 1)

\* C3 as amended: the configuration is read exactly once by each call that
\* finds nothing cached and by no other call; in one thread that is once by
\* every call that fails and once by the call that succeeds, and never after
\* that call.
C3_ConfigReadOncePerUncachedCall ==
    /\ confReads + Cardinality({t \in Threads : pc[t] = "l72"}) = emptyChecks
    /\ confReads = failed + (IF default_executor # None \/ pc[MainThread] \in {"l74", "l74s"}
                             THEN 1 ELSE 0)

\* C3 witness: a call failed, the next one succeeded and a third one returned
\* the cached instance: two reads of the configuration.
C3_Witness ==
    /\ failed = 1
    /\ confReads = 2
    /\ nCalls = 3
    /\ emptyChecks = 2
    /\ pc[MainThread] = "idle"
    /\ ret[MainThread] = Return(default_executor)
    /\ default_executor # None

(***************************************************************************)
(* Properties of load_executor and import_executor_cls, stated of the      *)
(* latest direct call.                                                     *)
(***************************************************************************)
Loaded == last.op = "load_executor"
Imported == last.op = "import_executor_cls"

\* whether import_string finds a class at the location
Importable(dotted_path, mods) == Len(dotted_path) >= 2 /\ mods[dotted_path] = "ok"

CompositeLocations ==
    {executors[CELERY_EXECUTOR], executors[KUBERNETES_EXECUTOR],
     executors[CELERY_KUBERNETES_EXECUTOR]}

\* C4: load_executor of the composite name, when the Celery class, the
\* Kubernetes class or the composite class fails to load, raises
\* AirflowConfigException, as a failed generic resolution does.
C4_CompositeLoadFailureIsConfigException ==
    ( /\ Loaded
      /\ last.name = CELERY_KUBERNETES_EXECUTOR
      /\ last.env.bad = {}
      /\ \E l \in CompositeLocations : last.env.mods[l] # "ok" )
    => /\ Raised(last.out.res)
       /\ last.out.res.exc = "AirflowConfigException"

\* C5 as stated: for every registry key whose location loads,
\* import_executor_cls returns a class tagged CORE that can be constructed
\* with no arguments.
C5_EveryKeyIsCoreAndNoArgs ==
    ( /\ Imported
      /\ last.name \in RegistryKeys
      /\ last.env.mods[executors[last.name]] = "ok" )
    => /\ Returned(last.out.res)
       /\ last.out.res.val[2] = CORE
       /\ Returned(Construct(last.out.res.val[1], <<>>, {}, created + 1))

\* C5 as amended: for every registry key whose location loads,
\* import_executor_cls returns the class at the key's location tagged CORE;
\* it can be constructed with no arguments unless the key is the composite
\* name, whose class takes the two sub-executors and refuses an empty
\* argument list.
C5_EveryKeyIsCore ==
    ( /\ Imported
      /\ last.name \in RegistryKeys
      /\ last.env.mods[executors[last.name]] = "ok" )
    => /\ Returned(last.out.res)
       /\ last.out.res.val[2] = CORE
       /\ PathOf(last.out.res.val[1]) = executors[last.name]
       /\ last.out.loads = <<executors[last.name]>>
       /\ IF last.name = CELERY_KUBERNETES_EXECUTOR
          THEN Construct(last.out.res.val[1], <<>>, {}, created + 1).exc = "TypeError"
          ELSE Returned(Construct(last.out.res.val[1], <<>>, {}, created + 1))

\* C5 witness: a core executor other than the composite has been resolved.
C5_Witness ==
    /\ Imported
    /\ last.name = DEBUG_EXECUTOR
    /\ Returned(last.out.res)
    /\ last.out.res.val = <<ClassAt(executors[DEBUG_EXECUTOR]), CORE>>

\* a name on which import_executor_cls takes the plugin strategy
PluginPath(name) ==
    name \notin RegistryKeys /\ CountDots(name) = 1

\* what the literal-path strategy alone yields for the latest call
LiteralOutcomeDecides ==
    /\ Len(last.out.loads) > 0
    /\ last.out.loads[Len(last.out.loads)] = last.name
    /\ IF Importable(last.name, last.env.mods)
       THEN last.out.res = Return(<<ClassAt(last.name), CUSTOM_PATH>>)
       ELSE Raised(last.out.res) /\ last.out.res.exc = "ImportError"

\* C6: for a plugin-shaped name whose location airflow.executors.<name> does
\* not exist (module absent or attribute absent), import_executor_cls goes on
\* to load the name as a literal location: it returns that class tagged
\* CUSTOM_PATH when the literal load succeeds and raises only when it fails.
C6_MissingPluginFallsThrough ==
    ( /\ Imported
      /\ PluginPath(last.name)
      /\ last.env.plug = "ok"
      /\ last.env.mods[PluginLocation(last.name)] \in {"module_absent", "attr_absent"} )
    => /\ last.out.loads = <<PluginLocation(last.name), last.name>>
       /\ (Importable(last.name, last.env.mods)
             => last.out.res = Return(<<ClassAt(last.name), CUSTOM_PATH>>))
       /\ (Raised(last.out.res) <=> ~Importable(last.name, last.env.mods))

\* C6 witness: the plugin module is absent and the literal location loads.
C6_Witness ==
    /\ Imported
    /\ last.name = PluginShapedName
    /\ last.env.plug = "ok"
    /\ last.env.mods[PluginLocation(PluginShapedName)] = "module_absent"
    /\ last.env.mods[PluginShapedName] = "ok"
    /\ last.out.res = Return(<<ClassAt(PluginShapedName), CUSTOM_PATH>>)

\* C7 as stated: for a plugin-shaped name, no failure of the plugin attempt,
\* of whatever kind, in integrate_executor_plugins or in the load of
\* airflow.executors.<name>, reaches the caller: the literal path is tried
\* next and its outcome alone decides the call.
C7_NoPluginFailureReachesCaller ==
    ( /\ Imported
      /\ PluginPath(last.name)
      /\ \/ last.env.plug # "ok"
         \/ ~Importable(PluginLocation(last.name), last.env.mods) )
    => LiteralOutcomeDecides

\* C7 as amended: an ImportError or AttributeError of the plugin attempt (from
\* integrate_executor_plugins or from the load) never reaches the caller, the
\* literal path is tried next and alone decides; an exception of any other
\* kind raised by integrate_executor_plugins reaches the caller as it is and
\* nothing is loaded.
C7_SuppressedPluginFailureFallsThrough ==
    /\ ( /\ Imported
         /\ PluginPath(last.name)
         /\ \/ last.env.plug \in {"ImportError", "AttributeError"}
            \/ /\ last.env.plug = "ok"
               /\ ~Importable(PluginLocation(last.name), last.env.mods) )
       => LiteralOutcomeDecides
    /\ ( /\ Imported
         /\ PluginPath(last.name)
         /\ last.env.plug \notin {"ok", "ImportError", "AttributeError"} )
       => /\ last.out.res = Raise(last.env.plug, NoMessage)
          /\ last.out.loads = <<>>

\* C7 witness: integrate_executor_plugins raised ImportError, the literal path
\* was tried and its failure is the one the caller sees.
C7_Witness ==
    /\ Imported
    /\ last.name = PluginShapedName
    /\ last.env.plug = "ImportError"
    /\ last.env.mods[PluginShapedName] = "attr_absent"
    /\ last.out.loads = <<PluginShapedName>>
    /\ Raised(last.out.res)

\* the location the last strategy of import_executor_cls loads for a name
FinalLocation(name) ==
    IF name \in RegistryKeys THEN executors[name] ELSE name

\* C8: whatever the kind of load failure in the final strategy (module not
\* found, attribute not found, failure inside the target module), load_executor
\* raises AirflowConfigException and nothing else.
C8_FinalLoadFailureIsConfigException ==
    ( /\ Loaded
      /\ last.name # CELERY_KUBERNETES_EXECUTOR
      /\ Len(last.out.loads) > 0
      /\ last.out.loads[Len(last.out.loads)] = FinalLocation(last.name)
      /\ ~Importable(FinalLocation(last.name), last.env.mods) )
    => /\ Raised(last.out.res)
       /\ last.out.res.exc = "AirflowConfigException"

\* C8 witness: the target module of a dotted path failed while initialising.
C8_Witness ==
    /\ Loaded
    /\ last.name = DottedPathName
    /\ last.env.mods[DottedPathName] = "init_failure"
    /\ last.out.res.exc = "AirflowConfigException"

\* C9: for a name that is no registry key, is not plugin-shaped and is not an
\* importable location, load_executor raises AirflowConfigException with the
\* name in its message, and constructs nothing.
C9_UnknownNameRaisesWithName ==
    ( /\ Loaded
      /\ last.name \notin RegistryKeys
      /\ CountDots(last.name) # 1
      /\ ~Importable(last.name, last.env.mods) )
    => /\ Raised(last.out.res)
       /\ last.out.res.exc = "AirflowConfigException"
       /\ \E i \in 1..Len(last.out.res.msg) : last.out.res.msg[i] = last.name
       /\ last.out.made = <<>>

\* C9 witness: a name with no separator that is no key was refused.
C9_Witness ==
    /\ Loaded
    /\ last.name = BareName
    /\ last.out.res = Raise("AirflowConfigException", ConfigMessage(BareName))

\* C10: for a name that is no registry key, has more than one separator and
\* is importable, import_executor_cls returns the class found at that very
\* location, tagged CUSTOM_PATH.
C10_DottedPathIsCustomPath ==
    ( /\ Imported
      /\ last.name \notin RegistryKeys
      /\ CountDots(last.name) > 1
      /\ Importable(last.name, last.env.mods) )
    => /\ Returned(last.out.res)
       /\ PathOf(last.out.res.val[1]) = last.name
       /\ last.out.res.val[2] = CUSTOM_PATH
       /\ last.out.loads = <<last.name>>

\* C10 witness: a three-segment path has been resolved.
C10_Witness ==
    /\ Imported
    /\ last.name = DottedPathName
    /\ Returned(last.out.res)
    /\ last.out.res.val = <<ClassAt(DottedPathName), CUSTOM_PATH>>

(***************************************************************************)
(* Properties of the composite construction and of the strategies.         *)
(***************************************************************************)
CeleryClass == ClassAt(executors[CELERY_EXECUTOR])
KubernetesClass == ClassAt(executors[KUBERNETES_EXECUTOR])
CompositeClass == ClassAt(executors[CELERY_KUBERNETES_EXECUTOR])

\* C11: a successful load_executor of the composite name constructs exactly
\* one Celery executor and one Kubernetes executor, each with no arguments,
\* and exactly one composite, whose constructor receives those two instances,
\* Celery first; import_executor_cls, which would load the composite location
\* alone, is not used.
C11_CompositeBuiltFromOneOfEach ==
    ( /\ Loaded
      /\ last.name = CELERY_KUBERNETES_EXECUTOR
      /\ Returned(last.out.res) )
    => /\ Len(last.out.made) = 3
       /\ last.out.made[1].cls = CeleryClass
       /\ last.out.made[1].args = <<>>
       /\ last.out.made[2].cls = KubernetesClass
       /\ last.out.made[2].args = <<>>
       /\ last.out.made[3].cls = CompositeClass
       /\ last.out.made[3].args = <<last.out.made[1], last.out.made[2]>>
       /\ last.out.made[1].id # last.out.made[2].id
       /\ last.out.res.val = last.out.made[3]
       /\ last.out.plugs = 0
       /\ last.out.loads = <<executors[CELERY_EXECUTOR], executors[KUBERNETES_EXECUTOR],
                             executors[CELERY_KUBERNETES_EXECUTOR]>>

\* C11 witness: a composite has been returned.
C11_Witness ==
    /\ Loaded
    /\ last.name = CELERY_KUBERNETES_EXECUTOR
    /\ Returned(last.out.res)
    /\ last.out.res.val.cls = CompositeClass
    /\ Len(last.out.res.val.args) = 2

\* a step that is a whole direct call of load_executor or import_executor_cls
DirectCallStep == nCalls' = nCalls + 1 /\ pc' = pc

\* C12: integrate_executor_plugins is called only by a resolution of a name
\* that is no registry key and has exactly one separator, and once by it:
\* never by a resolution of a registry key, of the composite name or of a
\* name with no or several separators, and never by a get_default_executor
\* call that returns the cached instance.
C12_PluginsIntegratedOnlyOnPluginPath ==
    [][ /\ plugCalls' # plugCalls =>
             /\ plugCalls' = plugCalls + 1
             /\ \/ DirectCallStep /\ PluginPath(last'.name)
                \/ pc[MainThread] = "l74" /\ PluginPath(executor_name[MainThread])
        /\ (DirectCallStep /\ ~PluginPath(last'.name)) => plugCalls' = plugCalls
        /\ (pc[MainThread] = "l67" /\ default_executor # None) => plugCalls' = plugCalls
      ]_vars

\* C12 witness: the plugins were integrated once, by a direct resolution of a
\* plugin-shaped name, and not by the call of get_default_executor that
\* returned the cached instance before it.
C12_Witness ==
    /\ plugCalls = 1
    /\ last.op = "import_executor_cls"
    /\ last.name = PluginShapedName
    /\ nCalls = 3
    /\ emptyChecks = 1
    /\ default_executor # None
    /\ ret[MainThread] = Return(default_executor)

\* C13: for a registry key other than the composite name whose registered
\* location fails to load, the failure reaches the caller: the registered
\* location is the only one loaded, the plugins are not integrated, nothing
\* is constructed, import_executor_cls raises the load error and
\* load_executor raises AirflowConfigException naming the key.
C13_KeyLoadFailureIsSurfaced ==
    ( /\ last.op \in {"load_executor", "import_executor_cls"}
      /\ last.name \in RegistryKeys
      /\ last.name # CELERY_KUBERNETES_EXECUTOR
      /\ ~Importable(executors[last.name], last.env.mods) )
    => /\ last.out.loads = <<executors[last.name]>>
       /\ last.out.plugs = 0
       /\ Raised(last.out.res)
       /\ Imported => last.out.res.exc = "ImportError"
       /\ Loaded =>
            /\ last.out.res.exc = "AirflowConfigException"
            /\ \E i \in 1..Len(last.out.res.msg) : last.out.res.msg[i] = last.name
            /\ last.out.made = <<>>

\* C13 witness: the module of a registry key's location was absent and
\* load_executor refused the key.
C13_Witness ==
    /\ Loaded
    /\ last.name = LOCAL_EXECUTOR
    /\ last.env.mods[executors[LOCAL_EXECUTOR]] = "module_absent"
    /\ last.out.loads = <<executors[LOCAL_EXECUTOR]>>
    /\ last.out.res = Raise("AirflowConfigException", ConfigMessage(LOCAL_EXECUTOR))

\* the identities of the instances a value holds (a composite holds its two
\* sub-executors)
Ids(inst) ==
    IF inst = None THEN {}
    ELSE {inst.id} \cup {inst.args[i].id : i \in 1..Len(inst.args)}

\* every instance held anywhere was counted when it was constructed
KnownInstancesAreCounted ==
    /\ \A i \in Ids(default_executor) : i <= created
    /\ \A inst \in resolved : \A i \in Ids(inst) : i <= created
    /\ last.op = "load_executor" =>
         \A k \in 1..Len(last.out.made) : last.out.made[k].id <= created

\* C14: a direct call of load_executor or import_executor_cls leaves
\* _default_executor as it was, and the instance a successful load_executor
\* returns was constructed by that very call: it is not the cached default
\* nor any instance an earlier call constructed.
C14_ResolutionsBypassTheCache ==
    /\ []KnownInstancesAreCounted
    /\ [][ /\ created' >= created
           /\ DirectCallStep =>
                /\ default_executor' = default_executor
                /\ (last'.op = "load_executor" /\ Returned(last'.out.res)) =>
                     /\ last'.out.res.val.id > created
                     /\ last'.out.res.val.id <= created'
                     /\ last'.out.res.val # default_executor
                     /\ last'.out.res.val \notin resolved
                     /\ last.op = "load_executor" /\ Returned(last.out.res)
                          => last'.out.res.val # last.out.res.val
         ]_vars

\* C14 witness: with an instance of SequentialExecutor cached, load_executor
\* of the same name returned another instance of that class and the cache
\* kept the first one.
C14_Witness ==
    /\ default_executor # None
    /\ default_executor.cls = ClassAt(executors[SEQUENTIAL_EXECUTOR])
    /\ Loaded
    /\ last.name = SEQUENTIAL_EXECUTOR
    /\ Returned(last.out.res)
    /\ last.out.res.val.cls = default_executor.cls
    /\ last.out.res.val.id # default_executor.id
    /\ ret[MainThread] = Return(default_executor)

\* C15: in every reachable state the registry is the mapping the class body
\* gives it: no call of get_default_executor, load_executor or
\* import_executor_cls, the composite construction included, successful or
\* failing, adds, removes or changes an entry.
C15_RegistryIsFixed ==
    /\ DOMAIN registry = RegistryKeys
    /\ \A key \in RegistryKeys : registry[key] = executors[key]

\* C15 witness: get_default_executor has failed once and succeeded once, the
\* composite executor has been built by load_executor, and the registry has
\* its seven entries.
C15_Witness ==
    /\ failed >= 1
    /\ default_executor # None
    /\ Loaded
    /\ last.name = CELERY_KUBERNETES_EXECUTOR
    /\ Returned(last.out.res)
    /\ registry = executors

\* the positions of an event in the trace of the latest call
Positions(event) == {i \in 1..Len(last.out.events) : last.out.events[i] = event}

C17_PluginsIntegratedOnceAndFirst ==
    ( /\ last.op \in {"load_executor", "import_executor_cls"}
      /\ PluginPath(last.name) )
    => /\ last.out.plugs = 1
       /\ Positions(PlugEvent) = {1}
       /\ \A i \in Positions(LoadEvent(PluginLocation(last.name))) : i > 1
       /\ last.env.plug = "ok" =>
            /\ Len(last.out.loads) >= 1
            /\ last.out.loads[1] = PluginLocation(last.name)
            /\ last.out.events[2] = LoadEvent(PluginLocation(last.name))
       /\ last.env.plug = "ImportError" =>
            /\ last.out.loads = <<last.name>>
            /\ last.out.events[2] = LoadEvent(last.name)
            /\ Imported => LiteralOutcomeDecides
            /\ Loaded /\ Importable(last.name, last.env.mods) =>
                 Positions(ConstructEvent(ClassAt(last.name))) = {3}

\* C17 witness: integrate_executor_plugins raised ImportError, and the call
\* went on to load the name as a literal location and returned that class.
C17_Witness ==
    /\ Imported
    /\ last.name = PluginShapedName
    /\ last.env.plug = "ImportError"
    /\ last.out.events = <<PlugEvent, LoadEvent(PluginShapedName)>>
    /\ last.out.res = Return(<<ClassAt(PluginShapedName), CUSTOM_PATH>>)

\* the step in which load_executor raises inside get_default_executor
FailingStep == failed' = failed + 1

\* C18: a get_default_executor call in which load_executor raises (the name
\* does not resolve, or the constructor raises) leaves _default_executor
\* None and ends with that exception; _default_executor is not None only once
\* a load_executor call made by get_default_executor has returned, and holds
\* what it returned; and a call that finds the cache empty after earlier
\* failures reads the configuration again and calls load_executor again
\* (pc' # pc marks a step of the caller).
C18_FailedCallLeavesCacheUnset ==
    /\ [](default_executor # None => default_executor \in resolved)
    /\ []((pc[MainThread] = "idle" /\ default_executor # None)
            => ret[MainThread] = Return(default_executor))
    /\ []((pc[MainThread] = "idle" /\ Raised(ret[MainThread]))
            => default_executor = None /\ failed >= 1)
    /\ [](pc[MainThread] = "idle" =>
            /\ confReads = failed + Cardinality(resolved)
            /\ resolutions = confReads)
    /\ [][ /\ FailingStep =>
                /\ default_executor = None
                /\ default_executor' = None
                /\ Raised(ret'[MainThread])
                /\ pc'[MainThread] = "idle"
           /\ (pc[MainThread] = "l67" /\ pc' # pc /\ failed >= 1 /\ resolved = {}) =>
                pc'[MainThread] = "l72"
           /\ (pc[MainThread] = "l72" /\ pc' # pc) =>
                /\ confReads' = confReads + 1
                /\ executor_name'[MainThread] = conf
                /\ pc'[MainThread] = "l74"
           /\ (pc[MainThread] = "l74" /\ pc' # pc) => resolutions' = resolutions + 1
         ]_vars

\* C18 witness: two calls of get_default_executor failed one after the other,
\* each after its own read of the configuration and its own load_executor
\* call, and the cache is still empty.
C18_Witness ==
    /\ failed = 2
    /\ confReads = 2
    /\ resolutions = 2
    /\ pc[MainThread] = "idle"
    /\ Raised(ret[MainThread])
    /\ default_executor = None

\* the steps of the composite construction, in the order of lines 134-138
CompositeSteps ==
    <<LoadEvent(executors[CELERY_EXECUTOR]), ConstructEvent(CeleryClass),
      LoadEvent(executors[KUBERNETES_EXECUTOR]), ConstructEvent(KubernetesClass),
      LoadEvent(executors[CELERY_KUBERNETES_EXECUTOR]), ConstructEvent(CompositeClass)>>

\* the classes of the instances the latest call created, in order
MadeClasses == [k \in 1..Len(last.out.made) |-> last.out.made[k].cls]

\* C19: load_executor of the composite name runs a prefix of the steps load
\* Celery, construct Celery, load Kubernetes, construct Kubernetes, load the
\* composite class, construct the composite, all six when it returns, and
\* stops at the first step that fails, keeping what it created: a failed load
\* of the Kubernetes class comes after one Celery instance was created, a
\* failed load of the composite class after both sub-executors were created,
\* and no failing run creates a composite instance.
C19_CompositeStepsInOrder ==
    ( /\ Loaded
      /\ last.name = CELERY_KUBERNETES_EXECUTOR )
    => LET n == Len(last.out.events)
           stopped == CompositeSteps[n]
       IN
       /\ n \in 1..6
       /\ last.out.events = SubSeq(CompositeSteps, 1, n)
       /\ Returned(last.out.res) => n = 6
       /\ Raised(last.out.res) =>
            /\ \A k \in 1..Len(last.out.made) : last.out.made[k].cls # CompositeClass
            /\ MadeClasses = CASE n \in {1, 2} -> <<>>
                               [] n \in {3, 4} -> <<CeleryClass>>
                               [] n \in {5, 6} -> <<CeleryClass, KubernetesClass>>
            \* the step it stopped at is the one that failed
            /\ \/ /\ n \in {1, 3, 5}
                  /\ ~Importable(SubSeq(stopped, 2, Len(stopped)), last.env.mods)
               \/ /\ n \in {2, 4}
                  /\ ClassAt(SubSeq(stopped, 2, Len(stopped))) \in last.env.bad
               \/ n = 6
       /\ ~Importable(executors[CELERY_EXECUTOR], last.env.mods) => n = 1
       /\ ( /\ n >= 3
            /\ ~Importable(executors[KUBERNETES_EXECUTOR], last.env.mods) )
          => n = 3 /\ MadeClasses = <<CeleryClass>>
       /\ ( /\ n >= 5
            /\ ~Importable(executors[CELERY_KUBERNETES_EXECUTOR], last.env.mods) )
          => n = 5 /\ MadeClasses = <<CeleryClass, KubernetesClass>>

\* C19 witness: the load of the composite class failed after a Celery and a
\* Kubernetes executor had been created.
C19_Witness ==
    /\ Loaded
    /\ last.name = CELERY_KUBERNETES_EXECUTOR
    /\ last.env.mods[executors[CELERY_KUBERNETES_EXECUTOR]] = "attr_absent"
    /\ Raised(last.out.res)
    /\ Len(last.out.made) = 2
    /\ last.out.made[1].cls = CeleryClass
    /\ last.out.made[2].cls = KubernetesClass
    /\ last.out.events = SubSeq(CompositeSteps, 1, 5)

====
